---- MODULE Spec2Model ----
(***************************************************************************)
(* Model of the MemGPT memory manager of the travel planner                *)
(* (src/travel_planner/memory/memgpt_system.py): process_message, the      *)
(* heartbeat agent loop, the tool dispatcher, the context-size estimate    *)
(* and the queue flush.                                                    *)
(*                                                                         *)
(* Texts whose only use is their length (queue messages, the queue         *)
(* summary, the system prompt, the core-memory record) are modelled by the *)
(* length of their serialisation; texts that are returned to the caller    *)
(* (send_message arguments, raw model text) are modelled as strings.       *)
(***************************************************************************)
EXTENDS Integers, Sequences, FiniteSets, TLC

\* ---------------------------------------------------------------- bounds
MaxTurns == 1          \* process_message invocations explored per session
MaxToolCalls == 10     \* tool calls the inference collaborator issues per session
MaxCalls == 2          \* tool calls in one inference result

\* ------------------------------------------------------ program constants
max_iterations == 10                \* _agent_loop_with_heartbeats
MAX_CONTEXT_TOKENS == 8000          \* settings
MEMORY_WARNING_THRESHOLD == 7       \* 0.7, in tenths
FLUSH_THRESHOLD == 9                \* 0.9, in tenths
MinFlushLen == 10                   \* _flush_queue: len(self.fifo_queue) < 10
CharsPerToken == 4                  \* _calculate_context_size: len // 4
SystemLen == 3017                   \* len(MEMGPT_SYSTEM_PROMPT)
CoreMemoryLen == 284                \* len(json.dumps(CoreMemory(...).dict())) of a new user
MsgOverhead == 86                   \* json.dumps(msg.dict()) minus role and content

NoResponse == "<None>"              \* Python None of final_response
FallbackText == "I apologize, but I encountered an issue processing your request."

\* ------------------------------------------------------------ input sets
UserLens == {40, 25000, 26000}           \* content lengths of user messages
ResultLens == {91}                  \* content + metadata length of a tool-result message
Messages == {"", "done"}            \* send_message(message=...)
Texts == {"", "raw"}                \* response.content of a plain-text inference result
TextLen(t) == IF t = "" THEN 0 ELSE 40
SummaryLens == {200, 60000}         \* lengths of the summary the collaborator returns

KnownFunctions == {"core_memory_append", "core_memory_replace", "conversation_search",
                   "archival_memory_search", "archival_memory_insert", "send_message"}

ToolCalls ==
    [name : {"archival_memory_search"}, hb : BOOLEAN, message : {""}]
    \cup [name : {"bogus_function"}, hb : {TRUE}, message : {""}]
    \cup [name : {"send_message"}, hb : BOOLEAN, message : Messages]

CallSeqs == UNION {[1..n -> ToolCalls] : n \in 1..MaxCalls}

VARIABLES
    pc,                  \* "idle" | "loop" | "ret" | "summarize"
    fifo_queue,          \* self.fifo_queue: sequence of [id, role, size]
    queue_summary,       \* len(self.queue_summary)
    current_tokens,      \* local of process_message
    iteration,           \* local of _agent_loop_with_heartbeats
    heartbeat_requested, \* local of _agent_loop_with_heartbeats
    final_response,      \* local of _agent_loop_with_heartbeats
    response,            \* result["response"] handed to the caller
    status,              \* "none" | "running" | "returned" | "raised"
    turn,                \* process_message invocations so far
    nextId,              \* identity of the next ConversationMessage created
    toolCallsUsed,       \* tool calls executed so far
    evicted,             \* history: ids removed from fifo_queue
    summaryCovers,       \* history: ids whose transcript went into queue_summary
    log,                 \* history of the current turn (see NewLog)
    working_context,     \* self.working_context: the CoreMemory record
    core_memory_store,   \* MemoryStore.core_memory_store: user id -> record
    core_memory_file,    \* content of core_memory.json: user id -> record
    archival_collection, \* documents of the archival collection, in insertion order
    conversation_collection, \* recall storage: ids of the messages saved
    prompt,              \* queue messages of the prompt of the latest llm.invoke
    call_result,         \* result dict of the latest _execute_function
    last_call,           \* history: the call of the latest _execute_function
    opsDone,             \* history: number of dispatcher calls made directly
    peer_store,          \* a concurrent session of another user: its MemoryStore.core_memory_store
    inputs,              \* main.py: the inputs dict kept across graph runs
    graph_state,         \* GraphState of the graph run in progress
    node,                \* position of main.py / of the graph run
    delivered            \* history: per user message, calls of process_message with it

coreVars == <<working_context, core_memory_store, core_memory_file, archival_collection,
              call_result, last_call, opsDone>>

appVars == <<peer_store, inputs, graph_state, node, delivered>>

loopVars == <<pc, fifo_queue, queue_summary, current_tokens, iteration, heartbeat_requested,
              final_response, response, status, turn, nextId, toolCallsUsed, evicted,
              summaryCovers, log>>

vars == <<pc, fifo_queue, queue_summary, current_tokens, iteration, heartbeat_requested,
          final_response, response, status, turn, nextId, toolCallsUsed, evicted,
          summaryCovers, log, working_context, core_memory_store, core_memory_file,
          archival_collection, conversation_collection, prompt, call_result,
          last_call, opsDone, peer_store, inputs, graph_state, node, delivered>>

\* ------------------------------------------------------------ core memory
\* Strings that are edited are sequences of characters.
Users == {"u1", "u2"}
user_id == "u1"                     \* self.user_id of the session
Absent == [absent |-> TRUE]         \* no entry in the dict (dict.get gives None)
NoCall == [name |-> "<none>"]
NoResult == [status |-> "<none>"]

DefaultPersona == <<"I", " ", "a", "m", " ", "a", " ", "h", "e", "l", "p", "f", "u", "l", " ", "t", "r", "a", "v", "e", "l", " ", "p", "l", "a", "n", "n", "i", "n", "g", " ", "a", "s", "s", "i", "s", "t", "a", "n", "t", ".">>
NewUserProfile == <<"I", " ", "a", "m", " ", "a", " ", "n", "e", "w", " ", "u", "s", "e", "r", ".", " ", "P", "l", "e", "a", "s", "e", " ", "a", "s", "k", " ", "m", "e", " ", "a", "b", "o", "u", "t", " ", "m", "y", " ", "t", "r", "a", "v", "e", "l", " ", "p", "r", "e", "f", "e", "r", "e", "n", "c", "e", "s", ".">>

\* CoreMemory(user_id=..., user_profile="I am a new user. ...") of line 50
NewCoreMemory(u) == [user_id |-> u, persona |-> DefaultPersona, user_profile |-> NewUserProfile]

\* MemoryStore.save_core_memory: the dict entry is set, then the whole dict is dumped
SaveCoreMemory(st, record) ==
    LET d == [st.store EXCEPT ![user_id] = record]
    IN  [st EXCEPT !.store = d, !.file = d]

\* MemoryStore.__init__ reads the file into the dict; _load_or_create_core_memory
\* returns the stored record or creates and saves a new one.
LoadOrCreateCoreMemory(file) ==
    LET st == [wc |-> Absent, store |-> file, file |-> file, archival |-> <<>>]
    IN  IF file[user_id] # Absent
            THEN [st EXCEPT !.wc = file[user_id]]
            ELSE SaveCoreMemory([st EXCEPT !.wc = NewCoreMemory(user_id)],
                                NewCoreMemory(user_id))

EmptyFile == [u \in Users |-> Absent]

\* ------------------------------------------------------ context budget
RECURSIVE SumRange(_, _, _)
SumRange(q, lo, hi) ==
    IF lo > hi THEN 0
    ELSE IF lo = hi THEN q[lo].size
    ELSE LET mid == (lo + hi) \div 2
         IN  SumRange(q, lo, mid) + SumRange(q, mid + 1, hi)

SumSizes(q) == SumRange(q, 1, Len(q))

\* len(json.dumps([msg.dict() for msg in queue])): "[" items joined by ", " "]"
QueueJsonLen(q) == IF Len(q) = 0 THEN 2 ELSE 2 + SumSizes(q) + 2 * (Len(q) - 1)

CalculateContextSize(q, summaryLen) ==
    (SystemLen + CoreMemoryLen + QueueJsonLen(q) + summaryLen) \div CharsPerToken

Estimate == CalculateContextSize(fifo_queue, queue_summary)

Warning(tokens) == tokens * 10 > MAX_CONTEXT_TOKENS * MEMORY_WARNING_THRESHOLD

MustFlush(tokens) == tokens * 10 > MAX_CONTEXT_TOKENS * FLUSH_THRESHOLD

\* ------------------------------------------------------------ messages
Digits(n) == IF n < 10 THEN 1 ELSE IF n < 100 THEN 2 ELSE IF n < 1000 THEN 3
             ELSE IF n < 10000 THEN 4 ELSE 5

UserMsg(id, len) == [id |-> id, role |-> "user", size |-> MsgOverhead + 4 + len]
WarningMsg(id, tokens) ==
    [id |-> id, role |-> "system", size |-> MsgOverhead + 6 + 132 + Digits(tokens)]
FuncMsg(id, len) == [id |-> id, role |-> "function", size |-> MsgOverhead + 8 + len]
AssistantMsg(id, text) ==
    [id |-> id, role |-> "assistant", size |-> MsgOverhead + 9 + TextLen(text)]

Ids(q) == {q[i].id : i \in 1..Len(q)}

\* _build_prompt, line 229: self.fifo_queue[-20:]
PromptWindow == 20

BuildPromptKeepsOldest(q) == IF Len(q) <= PromptWindow THEN q ELSE SubSeq(q, 1, PromptWindow)

BuildPrompt(q) ==
    IF Len(q) <= PromptWindow THEN q ELSE SubSeq(q, Len(q) - PromptWindow + 1, Len(q))

\* ------------------------------------------------------------ history
NewLog == [inferences |-> 0,        \* LLM invocations of the agent loop
           allHb |-> TRUE,          \* every round: known non-send operations, all with heartbeat
           script |-> "start",      \* progress along <<archival_memory_search>>, <<send_message("done")>>
           lastSend |-> NoResponse, \* message of the most recent send_message executed
           lastSendHb |-> FALSE,    \* its request_heartbeat
           lastText |-> NoResponse, \* response.content when the last round was plain text
           anyOps |-> FALSE,        \* some round requested operations
           lastOps |-> FALSE,       \* the last round requested operations
           lastAnyHb |-> FALSE,     \* some operation executed in the last round carried request_heartbeat
           lastHb |-> FALSE,        \* the last operation executed in the last round was known and carried it
           termEstimate |-> 0,      \* estimate when the agent loop terminated
           flush |-> "no",          \* "no" | "skipped" | "evicting" | "evicted" | "failed"
           preLen |-> 0,            \* queue length when _flush_queue was entered
           preEstimate |-> 0,       \* estimate when _flush_queue was entered
           pending |-> {},          \* ids evicted by the flush in progress
           lastResults |-> <<>>,    \* id and metadata.function of the function messages of the last round
           lastRequested |-> <<>>]  \* names of response.tool_calls of the last round, in order

\* main.py line 20: inputs = {'messages': [], ...}.  Of the messages only
\* those with role user are kept: the routing and the nodes count no others.
\* An absent processed_message_count reads as 0 (nodes.py 24-25, edges.py 52).
NewInputs == [messages |-> <<>>, processed_message_count |-> 0,
              user_preferences |-> FALSE, search_queries |-> FALSE,
              search_results |-> FALSE, travel_plan |-> FALSE]

NoPeer == [store |-> [none |-> TRUE], saves |-> 0]

\* No other session and no graph run.
AppIdle ==
    /\ peer_store = NoPeer
    /\ inputs = NewInputs
    /\ graph_state = NewInputs
    /\ node = "input"
    /\ delivered = <<>>

Init ==
    /\ pc = "idle"
    /\ fifo_queue = <<>>
    /\ queue_summary = 0
    /\ current_tokens = 0
    /\ iteration = 0
    /\ heartbeat_requested = FALSE
    /\ final_response = NoResponse
    /\ response = NoResponse
    /\ status = "none"
    /\ turn = 0
    /\ nextId = 1
    /\ toolCallsUsed = 0
    /\ evicted = {}
    /\ summaryCovers = {}
    /\ log = NewLog
    /\ LET st == LoadOrCreateCoreMemory(EmptyFile)
       IN  /\ working_context = st.wc
           /\ core_memory_store = st.store
           /\ core_memory_file = st.file
    /\ archival_collection = <<>>
    /\ conversation_collection = {}
    /\ prompt = <<>>
    /\ call_result = NoResult
    /\ last_call = NoCall
    /\ opsDone = 0
    /\ AppIdle

\* ------------------------------------------------------ process_message
\* Lines 244-267: append the user message, estimate, maybe warn, enter the loop.
ProcessMessage(len) ==
    /\ pc = "idle"
    /\ turn < MaxTurns
    /\ LET q1 == Append(fifo_queue, UserMsg(nextId, len))
           tokens == CalculateContextSize(q1, queue_summary)
       IN  /\ current_tokens' = tokens
           /\ IF Warning(tokens)
                 THEN /\ fifo_queue' = Append(q1, WarningMsg(nextId + 1, tokens))
                      /\ nextId' = nextId + 2
                 ELSE /\ fifo_queue' = q1
                      /\ nextId' = nextId + 1
    /\ turn' = turn + 1
    /\ iteration' = 0
    /\ heartbeat_requested' = TRUE
    /\ final_response' = NoResponse
    /\ response' = NoResponse
    /\ status' = "running"
    /\ log' = NewLog
    /\ pc' = "loop"
    /\ UNCHANGED <<queue_summary, toolCallsUsed, evicted, summaryCovers>>
    /\ conversation_collection' = conversation_collection \cup {nextId}
    /\ UNCHANGED <<appVars, coreVars, prompt>>

\* ------------------------------------------------------ tool dispatcher
\* _execute_function, lines 341-433: the result dict of one call.
ExecuteFunctionNoHeartbeat(call) ==
    [message |-> IF call.name = "send_message" THEN call.message ELSE "",
     request_heartbeat |-> FALSE]

ExecuteFunctionSendLosesMessage(call) ==
    [message |-> "",
     request_heartbeat |-> call.name \in KnownFunctions /\ call.hb]

ExecuteFunction(call) ==
    IF call.name = "send_message"
        THEN [message |-> call.message, request_heartbeat |-> call.hb]
    ELSE IF call.name \in KnownFunctions
        THEN [message |-> "", request_heartbeat |-> call.hb]
    ELSE [message |-> "", request_heartbeat |-> FALSE]

\* The for loop of lines 300-324 from call i on.  s carries the locals and
\* the queue; s.returned is the early return of line 324.
RECURSIVE DispatchAnyHeartbeat(_, _, _)
DispatchAnyHeartbeat(calls, i, s) ==
    IF i > Len(calls) \/ s.returned THEN s
    ELSE LET call == calls[i]
             function_result == ExecuteFunction(call)
             hb == function_result.request_heartbeat
             isSend == call.name = "send_message"
             len == CHOOSE l \in ResultLens : TRUE
         IN  DispatchAnyHeartbeat(calls, i + 1,
               [q |-> Append(s.q, FuncMsg(s.id, len)),
                id |-> s.id + 1,
                hb |-> (i > 1 /\ s.hb) \/ hb,
                fr |-> IF isSend THEN function_result.message ELSE s.fr,
                returned |-> isSend /\ ~hb,
                executed |-> s.executed + 1,
                anyHb |-> s.anyHb \/ call.hb,
                lastHb |-> hb,
                lastSend |-> IF isSend THEN call.message ELSE s.lastSend,
                lastSendHb |-> IF isSend THEN hb ELSE s.lastSendHb,
                results |-> Append(s.results, [id |-> s.id, function |-> call.name])])

RECURSIVE Dispatch(_, _, _)
Dispatch(calls, i, s) ==
    IF i > Len(calls) \/ s.returned THEN s
    ELSE LET call == calls[i]
             function_result == ExecuteFunction(call)
             hb == function_result.request_heartbeat
             isSend == call.name = "send_message"
             len == CHOOSE l \in ResultLens : TRUE
         IN  Dispatch(calls, i + 1,
               [q |-> Append(s.q, FuncMsg(s.id, len)),
                id |-> s.id + 1,
                hb |-> hb,
                fr |-> IF isSend THEN function_result.message ELSE s.fr,
                returned |-> isSend /\ ~hb,
                executed |-> s.executed + 1,
                anyHb |-> s.anyHb \/ call.hb,
                lastHb |-> hb,
                lastSend |-> IF isSend THEN call.message ELSE s.lastSend,
                lastSendHb |-> IF isSend THEN hb ELSE s.lastSendHb,
                results |-> Append(s.results, [id |-> s.id, function |-> call.name])])

\* ------------------------------------------------------------ agent loop
\* while heartbeat_requested and iteration < max_iterations (line 286)
LoopGuardOffByOne(hb, it) == hb /\ it <= max_iterations

LoopGuard(hb, it) == hb /\ it < max_iterations

\* final_response or "I apologize, ..." (line 339)
OrFallbackKeepsEmpty(fr) == IF fr = NoResponse THEN FallbackText ELSE fr

OrFallbackNever(fr) == fr

OrFallback(fr) == IF fr = NoResponse \/ fr = "" THEN FallbackText ELSE fr

NextScript(calls) ==
    IF log.script = "start" /\ Len(calls) = 1 /\ calls[1].name = "archival_memory_search"
        THEN (IF calls[1].hb THEN "searchHb" ELSE "searchNoHb")
    ELSE IF log.script \in {"searchHb", "searchNoHb"}
            /\ calls = <<[name |-> "send_message", hb |-> FALSE, message |-> "done"]>>
        THEN (IF log.script = "searchHb" THEN "doneHb" ELSE "doneNoHb")
    ELSE "off"

\* One round whose inference result carries tool calls (lines 287-324).
RunTools(calls) ==
    /\ pc = "loop"
    /\ LoopGuard(heartbeat_requested, iteration)
    /\ LET s == Dispatch(calls, 1,
                   [q |-> fifo_queue, id |-> nextId, hb |-> heartbeat_requested,
                    fr |-> final_response, returned |-> FALSE, executed |-> 0,
                    anyHb |-> FALSE, lastHb |-> FALSE,
                    lastSend |-> log.lastSend, lastSendHb |-> log.lastSendHb,
                    results |-> <<>>])
       IN  /\ iteration' = iteration + 1
           /\ fifo_queue' = s.q
           /\ nextId' = s.id
           /\ heartbeat_requested' = s.hb
           /\ final_response' = s.fr
           /\ toolCallsUsed' = toolCallsUsed + s.executed
           /\ pc' = IF s.returned THEN "ret" ELSE "loop"
           /\ log' = [log EXCEPT
                  !.inferences = @ + 1,
                  !.allHb = @ /\ \A i \in 1..Len(calls) :
                                    /\ calls[i].name \in KnownFunctions \ {"send_message"}
                                    /\ calls[i].hb,
                  !.script = NextScript(calls),
                  !.lastSend = s.lastSend,
                  !.lastSendHb = s.lastSendHb,
                  !.lastText = NoResponse,
                  !.anyOps = TRUE,
                  !.lastOps = TRUE,
                  !.lastAnyHb = s.anyHb,
                  !.lastHb = s.lastHb,
                  !.termEstimate = IF s.returned
                                      THEN CalculateContextSize(s.q, queue_summary) ELSE @,
                  !.lastResults = s.results,
                  !.lastRequested = [i \in 1..Len(calls) |-> calls[i].name]]
    /\ UNCHANGED <<queue_summary, current_tokens, response, status, turn, evicted,
                   summaryCovers>>
    /\ prompt' = BuildPrompt(fifo_queue)
    /\ UNCHANGED <<appVars, coreVars, conversation_collection>>

InferTools(calls) ==
    /\ toolCallsUsed + Len(calls) <= MaxToolCalls
    /\ RunTools(calls)

\* One round whose inference result is plain text (lines 287-298, 325-337).
InferText(text) ==
    /\ pc = "loop"
    /\ LoopGuard(heartbeat_requested, iteration)
    /\ iteration' = iteration + 1
    /\ final_response' = text
    /\ heartbeat_requested' = FALSE
    /\ fifo_queue' = Append(fifo_queue, AssistantMsg(nextId, text))
    /\ nextId' = nextId + 1
    /\ log' = [log EXCEPT !.inferences = @ + 1, !.allHb = FALSE, !.script = "off",
                          !.lastText = text, !.lastOps = FALSE,
                          !.lastAnyHb = FALSE, !.lastHb = FALSE, !.lastResults = <<>>,
                          !.lastRequested = <<>>]
    /\ UNCHANGED <<pc, queue_summary, current_tokens, response, status, turn,
                   toolCallsUsed, evicted, summaryCovers>>
    /\ prompt' = BuildPrompt(fifo_queue)
    /\ conversation_collection' = conversation_collection \cup {nextId}
    /\ UNCHANGED <<appVars, coreVars>>

\* The while condition is false: return final_response or the fallback (line 339).
LoopExit ==
    /\ pc = "loop"
    /\ ~LoopGuard(heartbeat_requested, iteration)
    /\ final_response' = OrFallback(final_response)
    /\ pc' = "ret"
    /\ log' = [log EXCEPT !.termEstimate = Estimate]
    /\ UNCHANGED <<fifo_queue, queue_summary, current_tokens, iteration,
                   heartbeat_requested, response, status, turn, nextId, toolCallsUsed,
                   evicted, summaryCovers>>
    /\ UNCHANGED <<appVars, coreVars, conversation_collection, prompt>>

\* ------------------------------------------------------------ flush
\* Python slices q[:-k] and q[-k:] (k = 0 gives the empty list and the whole list).
SliceButLast(q, k) == IF k = 0 THEN <<>> ELSE SubSeq(q, 1, Len(q) - k)

SliceLastKeepsOldest(q, k) == SubSeq(q, 1, k)

SliceLast(q, k) == IF k = 0 THEN q ELSE SubSeq(q, Len(q) - k + 1, Len(q))

KeepCountRoundsUp(n) == (n + 1) \div 2

KeepCountOffByOne(n) == n \div 2 + 1

KeepCount(n) == n \div 2

\* Lines 270-277 when the flush check is false: return to the caller.
ReturnNoFlush ==
    /\ pc = "ret"
    /\ ~MustFlush(current_tokens)
    /\ response' = final_response
    /\ status' = "returned"
    /\ pc' = "idle"
    /\ UNCHANGED <<fifo_queue, queue_summary, current_tokens, iteration,
                   heartbeat_requested, final_response, turn, nextId, toolCallsUsed,
                   evicted, summaryCovers, log>>
    /\ UNCHANGED <<appVars, coreVars, conversation_collection, prompt>>

\* _flush_queue on a short queue (lines 437-438), then return to the caller.
FlushSkip ==
    /\ pc = "ret"
    /\ MustFlush(current_tokens)
    /\ Len(fifo_queue) < MinFlushLen
    /\ response' = final_response
    /\ status' = "returned"
    /\ pc' = "idle"
    /\ log' = [log EXCEPT !.flush = "skipped", !.preLen = Len(fifo_queue),
                          !.preEstimate = Estimate]
    /\ UNCHANGED <<fifo_queue, queue_summary, current_tokens, iteration,
                   heartbeat_requested, final_response, turn, nextId, toolCallsUsed,
                   evicted, summaryCovers>>
    /\ UNCHANGED <<appVars, coreVars, conversation_collection, prompt>>

\* _flush_queue lines 440-457: trim the queue and build the summary prompt
\* from self.queue_summary and the evicted transcript.
FlushEvict ==
    /\ pc = "ret"
    /\ MustFlush(current_tokens)
    /\ Len(fifo_queue) >= MinFlushLen
    /\ LET keep_count == KeepCount(Len(fifo_queue))
           gone == SliceButLast(fifo_queue, keep_count)
       IN  /\ fifo_queue' = SliceLast(fifo_queue, keep_count)
           /\ evicted' = evicted \cup Ids(gone)
           /\ log' = [log EXCEPT !.flush = "evicting", !.preLen = Len(fifo_queue),
                                 !.preEstimate = Estimate, !.pending = Ids(gone)]
    /\ pc' = "summarize"
    /\ UNCHANGED <<queue_summary, current_tokens, iteration, heartbeat_requested,
                   final_response, response, status, turn, nextId, toolCallsUsed,
                   summaryCovers>>
    /\ UNCHANGED <<appVars, coreVars, conversation_collection, prompt>>

\* self.llm.invoke returns the new summary (lines 459-463); back in
\* process_message the response is returned.
SummarizeReturns(summaryLen) ==
    /\ pc = "summarize"
    /\ queue_summary' = summaryLen
    /\ summaryCovers' = summaryCovers \cup log.pending
    /\ log' = [log EXCEPT !.flush = "evicted", !.pending = {}]
    /\ response' = final_response
    /\ status' = "returned"
    /\ pc' = "idle"
    /\ UNCHANGED <<fifo_queue, current_tokens, iteration, heartbeat_requested,
                   final_response, turn, nextId, toolCallsUsed, evicted>>
    /\ UNCHANGED <<appVars, coreVars, conversation_collection, prompt>>

\* self.llm.invoke raises: the exception leaves _flush_queue and process_message.
SummarizeRaises ==
    /\ pc = "summarize"
    /\ log' = [log EXCEPT !.flush = "failed", !.pending = {}]
    /\ status' = "raised"
    /\ pc' = "idle"
    /\ UNCHANGED <<fifo_queue, queue_summary, current_tokens, iteration,
                   heartbeat_requested, final_response, response, turn, nextId,
                   toolCallsUsed, evicted, summaryCovers>>
    /\ UNCHANGED <<appVars, coreVars, conversation_collection, prompt>>

\* ------------------------------------------------ dispatcher on the stores
MaxOps == 2                         \* dispatcher calls explored in a row

Contents == {<<>>, <<"a">>, <<"b">>}                   \* argument strings
Fields == {"persona", "user_profile", "travel_style"}   \* args['name']
RecognizedFields == {"persona", "user_profile"}

BaseCall == [name |-> "", hb |-> FALSE, message |-> "", field |-> "", content |-> <<>>,
             old_content |-> <<>>, new_content |-> <<>>]

StoreCalls ==
    {[BaseCall EXCEPT !.name = "core_memory_append", !.field = f, !.content = c] :
        f \in Fields, c \in Contents}
    \cup {[BaseCall EXCEPT !.name = "core_memory_replace", !.field = f,
                           !.old_content = o, !.new_content = n] :
        f \in Fields, o \in Contents, n \in Contents}
    \cup {[BaseCall EXCEPT !.name = "archival_memory_insert", !.content = c] :
            c \in {<<>>, <<"a">>}}
    \cup {[BaseCall EXCEPT !.name = n] : n \in {"conversation_search", "archival_memory_search"}}
    \cup {[BaseCall EXCEPT !.name = "bogus_function", !.hb = h, !.content = <<"a">>] :
            h \in BOOLEAN}
    \cup {[BaseCall EXCEPT !.name = "send_message", !.message = m] : m \in Messages}

\* True iff old occurs in s (Python: old in s).
IsSubstring(old, s) ==
    \E i \in 1..(Len(s) - Len(old) + 1) : SubSeq(s, i, i + Len(old) - 1) = old

\* str.replace(old, new): every non-overlapping occurrence, leftmost first;
\* an empty old inserts new before every character and at the end.
Interleave(s, new) ==
    LET B == Len(new) + 1
    IN  [k \in 1..(Len(s) * B + Len(new)) |->
            IF (k - 1) % B < Len(new) THEN new[((k - 1) % B) + 1]
            ELSE s[((k - 1) \div B) + 1]]

\* Start positions of the occurrences of old in s.
Matches(s, old) ==
    {i \in 1..(Len(s) - Len(old) + 1) : SubSeq(s, i, i + Len(old) - 1) = old}

\* The occurrences str.replace takes: leftmost first, skipping those that
\* overlap one already taken.
RECURSIVE Greedy(_, _, _)
Greedy(M, L, pos) ==
    LET rest == {m \in M : m >= pos}
    IN  IF rest = {} THEN {}
        ELSE LET i == CHOOSE m \in rest : \A n \in rest : m <= n
             IN  {i} \cup Greedy(M, L, i + L)

Chosen(s, old) ==
    LET M == Matches(s, old)
    IN  IF \E m, n \in M : m < n /\ n < m + Len(old) THEN Greedy(M, Len(old), 1) ELSE M

\* Concatenation of pieces[lo], ..., pieces[hi].
RECURSIVE Flatten(_, _, _)
Flatten(pieces, lo, hi) ==
    IF lo > hi THEN <<>>
    ELSE IF lo = hi THEN pieces[lo]
    ELSE LET mid == (lo + hi) \div 2
         IN  Flatten(pieces, lo, mid) \o Flatten(pieces, mid + 1, hi)

ReplaceFrom(s, old, new) ==
    LET C == Chosen(s, old)
        pieces == [i \in 1..Len(s) |->
                      IF i \in C THEN new
                      ELSE IF \E c \in C : c < i /\ i < c + Len(old) THEN <<>>
                      ELSE <<s[i]>>]
    IN  Flatten(pieces, 1, Len(s))

StrReplaceOverwritesWhenAbsent(s, old, new) ==
    IF old = <<>> THEN Interleave(s, new)
    ELSE IF IsSubstring(old, s) THEN ReplaceFrom(s, old, new)
    ELSE new

StrReplace(s, old, new) ==
    IF old = <<>> THEN Interleave(s, new) ELSE ReplaceFrom(s, old, new)

\* self.working_context.<field> += "\n" + content (lines 350-353)
AppendToFieldNoSeparatorFirst(wc, field, content) ==
    IF field = "persona" THEN [wc EXCEPT !.persona = content \o <<"\n">> \o @]
    ELSE IF field = "user_profile" THEN [wc EXCEPT !.user_profile = content \o <<"\n">> \o @]
    ELSE wc

AppendToFieldDefaultsToProfile(wc, field, content) ==
    IF field = "persona" THEN [wc EXCEPT !.persona = @ \o <<"\n">> \o content]
    ELSE [wc EXCEPT !.user_profile = @ \o <<"\n">> \o content]

AppendToField(wc, field, content) ==
    IF field = "persona" THEN [wc EXCEPT !.persona = @ \o <<"\n">> \o content]
    ELSE IF field = "user_profile" THEN [wc EXCEPT !.user_profile = @ \o <<"\n">> \o content]
    ELSE wc

\* self.working_context.<field> = <field>.replace(old, new) (lines 369-376)
ReplaceInField(wc, field, old, new) ==
    IF field = "persona" THEN [wc EXCEPT !.persona = StrReplace(@, old, new)]
    ELSE IF field = "user_profile"
        THEN [wc EXCEPT !.user_profile = StrReplace(@, old, new)]
    ELSE wc

\* _execute_function, lines 341-433: the effect of one call on
\* st = [wc, store, file, archival].
ExecuteOnStoresUnknownInserts(call, st) ==
    IF call.name = "core_memory_append"
        THEN LET wc == AppendToField(st.wc, call.field, call.content)
             IN  SaveCoreMemory([st EXCEPT !.wc = wc], wc)
    ELSE IF call.name = "core_memory_replace"
        THEN LET wc == ReplaceInField(st.wc, call.field, call.old_content, call.new_content)
             IN  SaveCoreMemory([st EXCEPT !.wc = wc], wc)
    ELSE IF call.name \in {"conversation_search", "archival_memory_search", "send_message"}
        THEN st
    ELSE [st EXCEPT !.archival = Append(@, call.content)]

ExecuteOnStoresInsertNotesProfile(call, st) ==
    IF call.name = "core_memory_append"
        THEN LET wc == AppendToField(st.wc, call.field, call.content)
             IN  SaveCoreMemory([st EXCEPT !.wc = wc], wc)
    ELSE IF call.name = "core_memory_replace"
        THEN LET wc == ReplaceInField(st.wc, call.field, call.old_content, call.new_content)
             IN  SaveCoreMemory([st EXCEPT !.wc = wc], wc)
    ELSE IF call.name = "archival_memory_insert"
        THEN LET wc == AppendToField(st.wc, "user_profile", call.content)
             IN  SaveCoreMemory([st EXCEPT !.wc = wc, !.archival = Append(@, call.content)], wc)
    ELSE st

ExecuteOnStoresNoSave(call, st) ==
    IF call.name = "core_memory_append"
        THEN [st EXCEPT !.wc = AppendToField(st.wc, call.field, call.content)]
    ELSE IF call.name = "core_memory_replace"
        THEN [st EXCEPT !.wc = ReplaceInField(st.wc, call.field, call.old_content,
                                              call.new_content)]
    ELSE IF call.name = "archival_memory_insert"
        THEN [st EXCEPT !.archival = Append(@, call.content)]
    ELSE st

ExecuteOnStores(call, st) ==
    IF call.name = "core_memory_append"
        THEN LET wc == AppendToField(st.wc, call.field, call.content)
             IN  SaveCoreMemory([st EXCEPT !.wc = wc], wc)
    ELSE IF call.name = "core_memory_replace"
        THEN LET wc == ReplaceInField(st.wc, call.field, call.old_content, call.new_content)
             IN  SaveCoreMemory([st EXCEPT !.wc = wc], wc)
    ELSE IF call.name = "archival_memory_insert"
        THEN [st EXCEPT !.archival = Append(@, call.content)]
    ELSE st

\* _execute_function: the dict returned.  status is the "status" entry, or
\* "results" / "message" / "error" for the dicts that carry that key instead.
ResultDict(call) ==
    LET hb == ExecuteFunction(call).request_heartbeat
    IN  IF call.name = "core_memory_append"
            THEN [status |-> "success", message |-> <<"Appended to ", call.field>>,
                  request_heartbeat |-> hb]
        ELSE IF call.name = "core_memory_replace"
            THEN [status |-> "success", message |-> <<"Replaced content in ", call.field>>,
                  request_heartbeat |-> hb]
        ELSE IF call.name \in {"conversation_search", "archival_memory_search"}
            THEN [status |-> "results", message |-> <<>>, request_heartbeat |-> hb]
        ELSE IF call.name = "archival_memory_insert"
            THEN [status |-> "success", message |-> <<"Stored in archival memory">>,
                  request_heartbeat |-> hb]
        ELSE IF call.name = "send_message"
            THEN [status |-> "message", message |-> <<call.message>>,
                  request_heartbeat |-> hb]
        ELSE [status |-> "error", message |-> <<"Unknown function: ", call.name>>,
              request_heartbeat |-> hb]

\* One call of _execute_function on the session's stores.
ExecuteCall(call) ==
    /\ pc = "idle"
    /\ opsDone < MaxOps
    /\ LET st == ExecuteOnStores(call, [wc |-> working_context, store |-> core_memory_store,
                                        file |-> core_memory_file,
                                        archival |-> archival_collection])
       IN  /\ working_context' = st.wc
           /\ core_memory_store' = st.store
           /\ core_memory_file' = st.file
           /\ archival_collection' = st.archival
    /\ call_result' = ResultDict(call)
    /\ last_call' = call
    /\ opsDone' = opsDone + 1
    /\ UNCHANGED <<appVars, loopVars, conversation_collection, prompt>>

\* Files a new session may find: no record, or records saved by earlier sessions.
StoredRecords(u) ==
    {Absent} \cup {[user_id |-> u, persona |-> p, user_profile |-> q] :
                      p \in {<<"a", "b">>},
                      q \in IF u = user_id THEN {<<>>, <<"b", "a", "a">>} ELSE {<<"b">>}}

DispatchInit ==
    /\ pc = "idle"
    /\ fifo_queue = <<>>
    /\ queue_summary = 0
    /\ current_tokens = 0
    /\ iteration = 0
    /\ heartbeat_requested = FALSE
    /\ final_response = NoResponse
    /\ response = NoResponse
    /\ status = "none"
    /\ turn = 0
    /\ nextId = 1
    /\ toolCallsUsed = 0
    /\ evicted = {}
    /\ summaryCovers = {}
    /\ log = NewLog
    /\ \E file \in {f \in [Users -> UNION {StoredRecords(u) : u \in Users}] :
                       \A u \in Users : f[u] \in StoredRecords(u)} :
          LET st == LoadOrCreateCoreMemory(file)
          IN  /\ working_context = st.wc
              /\ core_memory_store = st.store
              /\ core_memory_file = st.file
    /\ archival_collection = <<<<"b">>>>
    /\ conversation_collection = {1, 2}
    /\ prompt = <<>>
    /\ call_result = NoResult
    /\ last_call = NoCall
    /\ opsDone = 0
    /\ AppIdle

DispatchNext == \E call \in StoreCalls : ExecuteCall(call)

DispatchSpec == DispatchInit /\ [][DispatchNext]_vars

AgentStep ==
    \/ \E calls \in CallSeqs : InferTools(calls)
    \/ \E text \in Texts : InferText(text)
    \/ LoopExit
    \/ ReturnNoFlush
    \/ FlushSkip
    \/ FlushEvict
    \/ \E summaryLen \in SummaryLens : SummarizeReturns(summaryLen)

Next ==
    \/ \E len \in UserLens : ProcessMessage(len)
    \/ \E calls \in CallSeqs : InferTools(calls)
    \/ \E text \in Texts : InferText(text)
    \/ LoopExit
    \/ ReturnNoFlush
    \/ FlushSkip
    \/ FlushEvict
    \/ \E summaryLen \in SummaryLens : SummarizeReturns(summaryLen)
    \/ SummarizeRaises

Spec == Init /\ [][Next]_vars

\* Rounds in which the collaborator requests many operations at once: the
\* response of one llm.invoke carries n tool calls (line 299), n unbounded.
MaxBatch == 21

BatchSizes == {1, MaxBatch}

BatchCalls(n, hb) ==
    [i \in 1..n |-> [name |-> "archival_memory_search", hb |-> hb, message |-> ""]]

InferBatch(n, hb) == RunTools(BatchCalls(n, hb))

BatchNext ==
    \/ \E len \in UserLens : ProcessMessage(len)
    \/ \E n \in BatchSizes, hb \in BOOLEAN : InferBatch(n, hb)
    \/ \E text \in Texts : InferText(text)
    \/ LoopExit
    \/ ReturnNoFlush
    \/ FlushSkip
    \/ FlushEvict
    \/ \E summaryLen \in SummaryLens : SummarizeReturns(summaryLen)
    \/ SummarizeRaises

BatchSpec == Init /\ [][BatchNext]_vars

\* llm_with_tools.invoke raises in a round of the agent loop (line 296):
\* nothing catches it, the exception leaves the loop and process_message.
InferRaises ==
    /\ pc = "loop"
    /\ LoopGuard(heartbeat_requested, iteration)
    /\ iteration' = iteration + 1
    /\ prompt' = BuildPrompt(fifo_queue)
    /\ status' = "raised"
    /\ pc' = "idle"
    /\ UNCHANGED <<fifo_queue, queue_summary, current_tokens, heartbeat_requested,
                   final_response, response, turn, nextId, toolCallsUsed, evicted,
                   summaryCovers, log>>
    /\ UNCHANGED <<appVars, coreVars, conversation_collection>>

FaultNext == Next \/ InferRaises

FaultSpec == Init /\ [][FaultNext]_vars

\* The loop and the summarisation call are blocking calls that return.
FairSpec == Spec /\ WF_vars(AgentStep)

TypeOK ==
    /\ pc \in {"idle", "loop", "ret", "summarize"}
    /\ iteration \in 0..(max_iterations + 1)
    /\ status \in {"none", "running", "returned", "raised"}

\* ------------------------------------------------ two concurrent sessions
\* Fresh agent loop, recall and archival stores, no dispatcher call yet.
LoopIdle ==
    /\ pc = "idle"
    /\ fifo_queue = <<>>
    /\ queue_summary = 0
    /\ current_tokens = 0
    /\ iteration = 0
    /\ heartbeat_requested = FALSE
    /\ final_response = NoResponse
    /\ response = NoResponse
    /\ status = "none"
    /\ turn = 0
    /\ nextId = 1
    /\ toolCallsUsed = 0
    /\ evicted = {}
    /\ summaryCovers = {}
    /\ log = NewLog
    /\ conversation_collection = {}
    /\ prompt = <<>>
    /\ call_result = NoResult
    /\ last_call = NoCall
    /\ opsDone = 0

peer_id == "u2"                     \* user id of the other session

StoredFiles ==
    {f \in [Users -> UNION {StoredRecords(u) : u \in Users}] :
        \A u \in Users : f[u] \in StoredRecords(u)}

\* MemoryStore(peer_id) and _load_or_create_core_memory of the other session:
\* the whole file is read into its dict; a missing record is created and the
\* dict is dumped to the file.
PeerOpen(file) ==
    IF file[peer_id] # Absent THEN [store |-> file, file |-> file]
    ELSE LET d == [file EXCEPT ![peer_id] = NewCoreMemory(peer_id)]
         IN  [store |-> d, file |-> d]

\* core_memory_append on user_profile in the other session: save_core_memory
\* sets its own entry and dumps its whole dict to the shared file.
PeerSave(content) ==
    /\ pc = "idle"
    /\ peer_store.saves < MaxOps
    /\ LET record == AppendToField(peer_store.store[peer_id], "user_profile", content)
           d == [peer_store.store EXCEPT ![peer_id] = record]
       IN  /\ peer_store' = [store |-> d, saves |-> peer_store.saves + 1]
           /\ core_memory_file' = d
    /\ UNCHANGED <<loopVars, conversation_collection, prompt, working_context,
                   core_memory_store, archival_collection, call_result, last_call,
                   opsDone, inputs, graph_state, node, delivered>>

SessionCalls ==
    {c \in StoreCalls : c.name = "core_memory_append" /\ c.field \in RecognizedFields}

\* Both sessions are constructed, in either order, on the file they share
\* (settings.CHROMA_PERSIST_DIR/core_memory.json).
SessionsInit ==
    /\ LoopIdle
    /\ archival_collection = <<>>
    /\ inputs = NewInputs
    /\ graph_state = NewInputs
    /\ node = "input"
    /\ delivered = <<>>
    /\ \E file \in StoredFiles, first \in Users :
          LET st == LoadOrCreateCoreMemory(IF first = user_id THEN file ELSE PeerOpen(file).file)
              p == PeerOpen(IF first = user_id THEN st.file ELSE file)
          IN  /\ working_context = st.wc
              /\ core_memory_store = st.store
              /\ core_memory_file = IF first = user_id THEN p.file ELSE st.file
              /\ peer_store = [store |-> p.store, saves |-> 0]

SessionsNext ==
    \/ \E call \in SessionCalls : ExecuteCall(call)
    \/ \E content \in Contents : PeerSave(content)

SessionsSpec == SessionsInit /\ [][SessionsNext]_vars

\* ------------------------------------------------ malformed arguments
\* Arguments read with args[...] (a missing key raises KeyError); page,
\* metadata and request_heartbeat are read with args.get and have defaults.
RequiredArgs(name) ==
    CASE name = "core_memory_append" -> {"name", "content"}
      [] name = "core_memory_replace" -> {"name", "old_content", "new_content"}
      [] name = "conversation_search" -> {"query"}
      [] name = "archival_memory_search" -> {"query"}
      [] name = "archival_memory_insert" -> {"content"}
      [] name = "send_message" -> {"message"}
      [] OTHER -> {}

Raised == [status |-> "raised", message |-> "KeyError", request_heartbeat |-> FALSE]

\* _execute_function with a required argument missing: the handlers read all
\* their arguments before they touch a store, and nothing catches KeyError.
ExecuteMalformed(name, missing) ==
    /\ pc = "idle"
    /\ opsDone < MaxOps
    /\ missing \in RequiredArgs(name)
    /\ call_result' = Raised
    /\ last_call' = [name |-> name, missing |-> missing]
    /\ opsDone' = opsDone + 1
    /\ UNCHANGED <<appVars, loopVars, conversation_collection, prompt, working_context,
                   core_memory_store, core_memory_file, archival_collection>>

ArgNames == {"name", "content", "old_content", "new_content", "query", "message"}

MalformedNext ==
    \/ \E call \in StoreCalls : ExecuteCall(call)
    \/ \E name \in KnownFunctions, missing \in ArgNames : ExecuteMalformed(name, missing)

MalformedSpec == DispatchInit /\ [][MalformedNext]_vars

\* ------------------------------------------------ paginated search
MaxDocs == 3                        \* documents in a collection
MaxPage == 3                        \* pages asked for

PageSizes == {1, 2}

\* The orders in which the collection can rank the documents of set S.
Rankings(S) ==
    {r \in [1..Cardinality(S) -> S] : \A i, j \in 1..Cardinality(S) : r[i] = r[j] => i = j}

\* collection.query(query_embeddings=..., n_results=n): the n best documents.
Query(ranking, n) == SubSeq(ranking, 1, IF n < Len(ranking) THEN n ELSE Len(ranking))

\* search_conversations and search_archival: offset is computed (line 89) or
\* not at all, and the query asks for n_results=page_size.
SearchStore(ranking, page, page_size) ==
    LET offset == (page - 1) * page_size
    IN  Query(ranking, page_size)

\* One search on one of the two stores; ranking is the order in which the
\* collection ranks its documents for the query.
Search(store, ranking, page, page_size) ==
    /\ pc = "idle"
    /\ opsDone < MaxOps
    /\ call_result' = [status |-> "results", results |-> SearchStore(ranking, page, page_size)]
    /\ last_call' = [name |-> store, page |-> page, page_size |-> page_size,
                     ranking |-> ranking]
    /\ opsDone' = opsDone + 1
    /\ UNCHANGED <<appVars, loopVars, conversation_collection, prompt, working_context,
                   core_memory_store, core_memory_file, archival_collection>>

Docs == {<<"a">>, <<"b">>, <<"c">>, <<"d">>}

SearchInit ==
    /\ pc = "idle"
    /\ fifo_queue = <<>>
    /\ queue_summary = 0
    /\ current_tokens = 0
    /\ iteration = 0
    /\ heartbeat_requested = FALSE
    /\ final_response = NoResponse
    /\ response = NoResponse
    /\ status = "none"
    /\ turn = 0
    /\ nextId = 1
    /\ toolCallsUsed = 0
    /\ evicted = {}
    /\ summaryCovers = {}
    /\ log = NewLog
    /\ prompt = <<>>
    /\ call_result = NoResult
    /\ last_call = NoCall
    /\ opsDone = 0
    /\ AppIdle
    /\ LET st == LoadOrCreateCoreMemory(EmptyFile)
       IN  /\ working_context = st.wc
           /\ core_memory_store = st.store
           /\ core_memory_file = st.file
    /\ \E n \in 0..MaxDocs :
          archival_collection \in {r \in [1..n -> Docs] : \A i, j \in 1..n : r[i] = r[j] => i = j}
    /\ \E n \in 0..MaxDocs : conversation_collection = 1..n

SearchNext ==
    \/ \E ranking \in Rankings({archival_collection[i] : i \in 1..Len(archival_collection)}),
          page \in 1..MaxPage, page_size \in PageSizes :
          Search("archival", ranking, page, page_size)
    \/ \E ranking \in Rankings(conversation_collection),
          page \in 1..MaxPage, page_size \in PageSizes :
          Search("conversations", ranking, page, page_size)

SearchSpec == SearchInit /\ [][SearchNext]_vars

\* ------------------------------------------------ the planner graph
\* The planner state keeps the ids of the user messages of state['messages']
\* (assistant messages never enter a count), the processed_message_count and
\* whether each planning field is set.  delivered[i] counts the calls of
\* MemGPTSystem.process_message with user message i.
MaxInputs == 6                      \* user inputs typed in main's loop

TripDoc == <<"t">>

\* should_continue
should_continue(state) ==
    IF state.messages = <<>> THEN "end"
    ELSE IF Len(state.messages) <= state.processed_message_count /\ ~state.user_preferences
         THEN "end"
    ELSE IF ~state.user_preferences THEN "preferences"
    ELSE IF ~state.search_queries THEN "queries"
    ELSE IF ~state.search_results THEN "search"
    ELSE IF ~state.travel_plan THEN "plan"
    ELSE "end"

\* The edge maps of build_travel_planner_with_memory: every key maps to the
\* node of the same name and "end" to END.
EdgeMap(from) ==
    CASE from = "preferences" -> {"preferences", "queries", "search", "plan", "end"}
      [] from = "queries" -> {"queries", "search", "plan", "end"}
      [] from = "search" -> {"search", "plan", "end"}
      [] from = "plan" -> {"plan", "save_memory", "end"}

\* Does the preferences node call process_message on the latest message?
Processes(state) ==
    /\ state.messages # <<>>
    /\ Len(state.messages) > state.processed_message_count

\* memory_aware_preferences_node; ready: the response carries a readiness
\* signal, extracted: the extraction yields a valid destination.
memory_aware_preferences_node(state, ready, extracted) ==
    IF state.messages = <<>> THEN [state EXCEPT !.processed_message_count = 0]
    ELSE IF ~Processes(state) THEN state
    ELSE LET marked == [state EXCEPT !.processed_message_count = Len(state.messages)]
             should_extract == ready \/ Len(state.messages) >= 2
         IN  IF ~state.user_preferences /\ should_extract /\ extracted
             THEN [marked EXCEPT !.user_preferences = TRUE]
             ELSE marked

\* memory_enhanced_planning_node; ok: the model returned search queries.
memory_enhanced_planning_node(state, ok) ==
    IF state.user_preferences /\ ok THEN [state EXCEPT !.search_queries = TRUE] ELSE state

\* execute_searches_node; ok: the searches found places.
execute_searches_node(state, ok) ==
    IF state.search_queries /\ state.user_preferences /\ ok
    THEN [state EXCEPT !.search_results = TRUE] ELSE state

\* create_travel_plan_node; ok: a plan was built.
create_travel_plan_node(state, ok) ==
    IF state.search_results /\ state.user_preferences /\ ok
    THEN [state EXCEPT !.travel_plan = TRUE] ELSE state

\* save_trip_to_memory_node: the archival collection after the node.
save_trip_to_memory_node(state, collection) ==
    IF state.travel_plan THEN Append(collection, TripDoc) ELSE collection

\* main, line 67 and 70: the input is appended and the graph is started.
UserInput ==
    /\ node = "input"
    /\ Len(delivered) < MaxInputs
    /\ inputs' = [inputs EXCEPT !.messages = Append(@, Len(delivered) + 1)]
    /\ graph_state' = inputs'
    /\ delivered' = Append(delivered, 0)
    /\ node' = "preferences"
    /\ UNCHANGED <<peer_store, loopVars, coreVars, conversation_collection, prompt>>

\* One step of graph.stream: the current node runs, main merges its state
\* into inputs (line 73) and the node's conditional edge picks the next node.
GraphStep(ready, extracted, ok) ==
    /\ node \in {"preferences", "queries", "search", "plan", "save_memory"}
    /\ LET st == CASE node = "preferences" ->
                        memory_aware_preferences_node(graph_state, ready, extracted)
                   [] node = "queries" -> memory_enhanced_planning_node(graph_state, ok)
                   [] node = "search" -> execute_searches_node(graph_state, ok)
                   [] node = "plan" -> create_travel_plan_node(graph_state, ok)
                   [] node = "save_memory" -> graph_state
       IN  /\ graph_state' = st
           /\ inputs' = st
           /\ delivered' = IF node = "preferences" /\ Processes(graph_state)
                           THEN [delivered EXCEPT
                                     ![graph_state.messages[Len(graph_state.messages)]] = @ + 1]
                           ELSE delivered
           /\ archival_collection' = IF node = "save_memory"
                                     THEN save_trip_to_memory_node(graph_state,
                                                                   archival_collection)
                                     ELSE archival_collection
           /\ node' = IF node = "save_memory" THEN "end"
                      ELSE CHOOSE n \in EdgeMap(node) : n = should_continue(st)
    /\ UNCHANGED <<peer_store, loopVars, conversation_collection, prompt, working_context,
                   core_memory_store, core_memory_file, call_result, last_call, opsDone>>

\* main, lines 81-96: after the run; another: the answer to "another trip?".
AfterRun(another) ==
    /\ node = "end"
    /\ IF inputs.travel_plan
       THEN IF another
            THEN /\ inputs' = [inputs EXCEPT !.user_preferences = FALSE,
                                             !.search_queries = FALSE,
                                             !.search_results = FALSE,
                                             !.travel_plan = FALSE,
                                             !.messages = <<>>]
                 /\ node' = "input"
            ELSE /\ node' = "exit"
                 /\ UNCHANGED inputs
       ELSE /\ node' = "input"
            /\ UNCHANGED inputs
    /\ UNCHANGED <<peer_store, graph_state, delivered, loopVars, coreVars,
                   conversation_collection, prompt>>

PlannerInit ==
    /\ LoopIdle
    /\ AppIdle
    /\ archival_collection = <<>>
    /\ LET st == LoadOrCreateCoreMemory(EmptyFile)
       IN  /\ working_context = st.wc
           /\ core_memory_store = st.store
           /\ core_memory_file = st.file

PlannerNext ==
    \/ UserInput
    \/ \E ready, extracted, ok \in BOOLEAN : GraphStep(ready, extracted, ok)
    \/ \E another \in BOOLEAN : AfterRun(another)

PlannerSpec == PlannerInit /\ [][PlannerNext]_vars

\* ------------------------------------------------ loop and operations
\* The steps of the agent loop together with the execution of one operation
\* of each kind, on the session Init constructs.
FrameCalls ==
    {[BaseCall EXCEPT !.name = "core_memory_append", !.field = "user_profile",
                      !.content = <<"a">>],
     [BaseCall EXCEPT !.name = "core_memory_replace", !.field = "user_profile",
                      !.old_content = <<"a">>, !.new_content = <<"b">>],
     [BaseCall EXCEPT !.name = "archival_memory_insert", !.content = <<"a">>],
     [BaseCall EXCEPT !.name = "conversation_search"],
     [BaseCall EXCEPT !.name = "archival_memory_search"],
     [BaseCall EXCEPT !.name = "bogus_function", !.hb = TRUE, !.content = <<"a">>],
     [BaseCall EXCEPT !.name = "send_message", !.message = "done"]}

MaxFrameOps == 1                    \* operations executed beside the loop

FrameNext ==
    \/ Next
    \/ \E call \in FrameCalls : opsDone < MaxFrameOps /\ ExecuteCall(call)

FrameSpec == Init /\ [][FrameNext]_vars

\* ================================================================ claims
Returned == pc = "idle" /\ status = "returned"

\* C1: one run of the agent loop performs at most max_iterations (10)
\* inference rounds, whatever the collaborator answers, and then terminates.
AgentLoopBounded ==
    /\ [](log.inferences <= max_iterations)
    /\ ((pc = "loop") ~> (pc = "ret"))

AgentLoopHitsCap == pc = "ret" /\ log.inferences = max_iterations

\* C2: when every round requests only known operations other than
\* send_message, each with request_heartbeat=true, the loop keeps running
\* below the cap, stops after exactly max_iterations rounds and returns the
\* fallback text.
HeartbeatOnlyEndsAtCap ==
    /\ (pc = "loop" /\ log.allHb /\ iteration < max_iterations) => heartbeat_requested
    /\ (pc = "ret" /\ log.allHb) =>
           (log.inferences = max_iterations /\ final_response = FallbackText)

HeartbeatOnlyAtCap == pc = "ret" /\ log.allHb /\ log.inferences = max_iterations

\* C3 as stated: round 1 requests archival_memory_search (with or without a
\* heartbeat), the collaborator's answer for round 2 is send_message("done")
\* without heartbeat; then the loop ends after exactly 2 rounds with "done".
SearchThenDoneAnyHeartbeat ==
    (pc = "ret" /\ log.script \in {"searchHb", "searchNoHb", "doneHb", "doneNoHb"}) =>
        (log.inferences = 2 /\ final_response = "done")

\* C3 amended: when the archival_memory_search of round 1 carries
\* request_heartbeat=true, round 2 runs, and after send_message("done")
\* without heartbeat the loop has ended after exactly 2 rounds with "done".
SearchWithHeartbeatThenDone ==
    /\ log.script = "searchHb" =>
           (pc = "loop" /\ LoopGuard(heartbeat_requested, iteration) /\ log.inferences = 1)
    /\ log.script = "doneHb" =>
           (pc # "loop" /\ log.inferences = 2 /\ final_response = "done")
    /\ (log.script = "doneHb" /\ Returned) => response = "done"

SearchThenDoneReturned == log.script = "doneHb" /\ Returned /\ response = "done"

\* C4 as stated: if a send_message was executed in the turn, the text
\* returned is the message of the most recent one.
LastSendIsReturned ==
    (Returned /\ log.lastSend # NoResponse) => response = log.lastSend

\* C4 amended: if a send_message was executed in the turn, the text returned
\* is the message of the most recent one when the last round requested
\* operations and the message is non-empty or was sent without heartbeat;
\* an empty message sent with a heartbeat gives the fallback text, and a
\* later plain-text round gives that raw text (the fallback when empty).
LastSendIsReturnedUnlessOverridden ==
    (Returned /\ log.lastSend # NoResponse) =>
        response = IF ~log.lastOps
                      THEN (IF log.lastText = "" THEN FallbackText ELSE log.lastText)
                   ELSE IF log.lastSend # "" \/ ~log.lastSendHb THEN log.lastSend
                   ELSE FallbackText

SendThenMoreOperations ==
    /\ Returned
    /\ log.lastSend = "done"
    /\ log.lastSendHb
    /\ log.lastOps
    /\ log.inferences >= 2
    /\ response = "done"

\* C5 as stated: raw model text is returned only when no round of the turn
\* requested operations; operations but no send_message give the fallback.
RawTextOnlyWithoutAnyOperation ==
    Returned =>
        /\ response \in (Texts \ {""}) => ~log.anyOps
        /\ (log.anyOps /\ log.lastSend = NoResponse) => response = FallbackText

\* C5 amended: raw model text is returned only when the last round of the
\* turn requested no operation; when the last round requested operations and
\* no send_message was executed in the turn, the fallback text is returned.
RawTextOnlyWhenLastRoundHasNoOperation ==
    Returned =>
        /\ response \in (Texts \ {""}) => (~log.lastOps /\ response = log.lastText)
        /\ (log.lastOps /\ log.lastSend = NoResponse) => response = FallbackText

OperationsWithoutSendGiveFallback ==
    /\ Returned
    /\ log.lastOps
    /\ log.lastSend = NoResponse
    /\ response = FallbackText

\* C6 as stated: after a round with operations, below the cap, the loop runs
\* another round iff some operation executed in that round requested a heartbeat.
ContinuesIffAnyHeartbeat ==
    (status = "running" /\ pc \in {"loop", "ret"} /\ log.lastOps
        /\ iteration < max_iterations) =>
        ((pc = "loop" /\ LoopGuard(heartbeat_requested, iteration)) <=> log.lastAnyHb)

\* C6 amended: after a round with operations, below the cap, the loop runs
\* another round iff the last operation executed in that round was a known
\* operation carrying request_heartbeat=true.
ContinuesIffLastHeartbeat ==
    (status = "running" /\ pc \in {"loop", "ret"} /\ log.lastOps
        /\ iteration < max_iterations) =>
        ((pc = "loop" /\ LoopGuard(heartbeat_requested, iteration)) <=> log.lastHb)

EarlierHeartbeatOverwritten ==
    /\ status = "running"
    /\ pc = "ret"
    /\ log.lastOps
    /\ log.lastAnyHb
    /\ ~log.lastHb
    /\ iteration < max_iterations

\* C7: whenever process_message returns and the estimate at the end of the
\* agent loop exceeded max_tokens * flush_threshold, _flush_queue was invoked.
FlushInvokedWhenMustFlush ==
    (Returned /\ MustFlush(log.termEstimate)) => log.flush # "no"

\* C8 as stated: after _flush_queue returns, the queue length is at most
\* ceil(pre-flush length / 2), for every queue length.
FlushHalvesEveryQueue ==
    (Returned /\ log.flush \in {"skipped", "evicted"}) =>
        2 * Len(fifo_queue) <= log.preLen + 1

\* C8 amended: after _flush_queue returns from a queue of at least 10
\* messages, the queue length is at most ceil(pre-flush length / 2); a queue
\* of fewer than 10 messages keeps its length.
FlushHalvesLongQueue ==
    /\ (Returned /\ log.flush = "evicted") =>
           (log.preLen >= MinFlushLen /\ 2 * Len(fifo_queue) <= log.preLen + 1)
    /\ (Returned /\ log.flush = "skipped") =>
           (log.preLen < MinFlushLen /\ Len(fifo_queue) = log.preLen)

FlushedLongQueue == Returned /\ log.flush = "evicted" /\ log.preLen > MinFlushLen

\* C9: between invocations, every message removed from the queue was part of
\* a transcript given to the summarisation call whose result is, or was
\* merged into, queue_summary; also when that call fails.
EvictedAreSummarized == pc = "idle" => evicted \subseteq summaryCovers

\* C10: the estimate does not decrease when messages are appended to the
\* queue, and the estimate after a flush is at most the estimate before it,
\* whatever summary the collaborator returns.
EstimateMonotone ==
    [][/\ (/\ Len(fifo_queue') > Len(fifo_queue)
           /\ SubSeq(fifo_queue', 1, Len(fifo_queue)) = fifo_queue)
          => CalculateContextSize(fifo_queue', queue_summary') >= Estimate
       /\ (/\ pc \in {"ret", "summarize"}
           /\ pc' = "idle"
           /\ status' = "returned"
           /\ log'.flush \in {"skipped", "evicted"})
          => CalculateContextSize(fifo_queue', queue_summary') <= log'.preEstimate]_vars

\* ------------------------------------------------ core memory operations
FieldOf(wc, f) == IF f = "persona" THEN wc.persona ELSE wc.user_profile

EndsWith(s, c) == Len(s) >= Len(c) /\ SubSeq(s, Len(s) - Len(c) + 1, Len(s)) = c
StartsWith(s, p) == Len(s) >= Len(p) /\ SubSeq(s, 1, Len(p)) = p

\* The step is a call of _execute_function with this name.
Executes(name) == opsDone' = opsDone + 1 /\ last_call'.name = name

\* C11: right after core_memory_append(f, c) on a recognized field f, the
\* field ends with c and starts with the value it had before the call.
AppendIsTrailing ==
    [][(Executes("core_memory_append") /\ last_call'.field \in RecognizedFields) =>
          LET f == last_call'.field
          IN  /\ EndsWith(FieldOf(working_context', f), last_call'.content)
              /\ StartsWith(FieldOf(working_context', f), FieldOf(working_context, f))
              /\ Len(FieldOf(working_context', f)) >
                     Len(FieldOf(working_context, f)) + Len(last_call'.content) - 1]_vars

AppendedToField ==
    /\ last_call.name = "core_memory_append"
    /\ last_call.field \in RecognizedFields
    /\ last_call.content = <<"a">>
    /\ EndsWith(FieldOf(working_context, last_call.field), <<"\n", "a">>)

\* C12: core_memory_append with a field name outside the recognized set
\* leaves the core memory record unchanged, in memory and in the store.
AppendUnknownFieldChangesNothing ==
    [][(Executes("core_memory_append") /\ last_call'.field \notin RecognizedFields) =>
          /\ working_context' = working_context
          /\ core_memory_store' = core_memory_store
          /\ core_memory_file' = core_memory_file]_vars

AppendedToUnknownField ==
    /\ last_call.name = "core_memory_append"
    /\ last_call.field \notin RecognizedFields
    /\ last_call.content # <<>>

\* C13: core_memory_append with an unrecognized field name reports an
\* explicit error, not a success.
AppendUnknownFieldIsError ==
    (last_call.name = "core_memory_append" /\ last_call.field \notin RecognizedFields)
        => call_result.status = "error"

\* C14 as stated: core_memory_replace(f, old, new) changes field f iff old
\* was a substring of f; when it was not, no field changes.
ReplaceChangesIffPresent ==
    [][(Executes("core_memory_replace") /\ last_call'.field \in RecognizedFields) =>
          LET f == last_call'.field
              present == IsSubstring(last_call'.old_content, FieldOf(working_context, f))
          IN  /\ (FieldOf(working_context', f) # FieldOf(working_context, f)) <=> present
              /\ ~present => working_context' = working_context]_vars

\* C14 amended: core_memory_replace(f, old, new) changes field f iff old was
\* a substring of f and new differs from old; no other field changes; when
\* old was not a substring the record is unchanged and a result is returned.
ReplaceChangesIffPresentAndDifferent ==
    [][(Executes("core_memory_replace") /\ last_call'.field \in RecognizedFields) =>
          LET f == last_call'.field
              g == CHOOSE h \in RecognizedFields : h # f
              present == IsSubstring(last_call'.old_content, FieldOf(working_context, f))
          IN  /\ (FieldOf(working_context', f) # FieldOf(working_context, f))
                    <=> (present /\ last_call'.new_content # last_call'.old_content)
              /\ FieldOf(working_context', g) = FieldOf(working_context, g)
              /\ ~present => working_context' = working_context
              /\ call_result'.status \in {"success", "error"}]_vars

ReplacedPresentContent ==
    /\ last_call.name = "core_memory_replace"
    /\ last_call.field = "user_profile"
    /\ last_call.old_content = <<"a">>
    /\ last_call.new_content = <<"b">>
    /\ IsSubstring(<<"b", "b">>, working_context.user_profile)

\* C15: core_memory_replace whose old_content is not a substring of the
\* field reports a "not found" outcome, not the result of a replace that
\* mutated the field.
ReplaceAbsentReportsNotFound ==
    [][(/\ Executes("core_memory_replace")
        /\ last_call'.field \in RecognizedFields
        /\ ~IsSubstring(last_call'.old_content,
                        FieldOf(working_context, last_call'.field)))
          => call_result'.status # "success"]_vars

\* C16: after construction and after every core_memory_append or
\* core_memory_replace, the record persisted for this user equals the
\* in-memory core memory.
PersistedEqualsWorkingContext ==
    /\ core_memory_store[user_id] = working_context
    /\ core_memory_file[user_id] = working_context

PersistedAfterTwoOperations ==
    /\ opsDone = 2
    /\ last_call.name \in {"core_memory_append", "core_memory_replace"}
    /\ working_context.persona # DefaultPersona
    /\ working_context.persona # <<"a", "b">>
    /\ core_memory_file[user_id] = working_context

\* C17: a call whose name is not one of the six known operations returns an
\* error result and changes neither core memory nor the recall and archival
\* stores.
UnknownOperationIsErrorOnly ==
    [][(opsDone' = opsDone + 1 /\ last_call'.name \notin KnownFunctions) =>
          /\ call_result'.status = "error"
          /\ working_context' = working_context
          /\ core_memory_store' = core_memory_store
          /\ core_memory_file' = core_memory_file
          /\ archival_collection' = archival_collection
          /\ conversation_collection' = conversation_collection]_vars

UnknownOperationExecuted ==
    /\ last_call.name = "bogus_function"
    /\ call_result.status = "error"
    /\ ~call_result.request_heartbeat

\* ------------------------------------------------ results in the prompt
\* The step is one inference round of the agent loop (llm.invoke, line 296).
InferenceRound == log'.inferences = log.inferences + 1

\* The round appends exactly one function message per executed operation,
\* in order, each with the operation's name in its metadata.
OneResultPerOperation ==
    LET n == Len(log'.lastResults)
    IN  /\ n = toolCallsUsed' - toolCallsUsed
        /\ Len(fifo_queue') = Len(fifo_queue) + n
        /\ SubSeq(fifo_queue', 1, Len(fifo_queue)) = fifo_queue
        /\ \A i \in 1..n :
              /\ fifo_queue'[Len(fifo_queue) + i].role = "function"
              /\ fifo_queue'[Len(fifo_queue) + i].id = log'.lastResults[i].id
              /\ log'.lastResults[i].function \in KnownFunctions \cup {"bogus_function"}
              /\ log'.lastResults[i].id \notin Ids(fifo_queue)

\* C18 as stated: every executed operation is recorded as exactly one
\* function message appended to the queue before the next inference round,
\* and the prompt of the next round contains that message.
EveryResultInNextPrompt ==
    [][/\ (InferenceRound /\ log'.lastOps) => OneResultPerOperation
       /\ InferenceRound =>
              \A i \in 1..Len(log.lastResults) : log.lastResults[i].id \in Ids(prompt')]_vars

\* C18 amended: every executed operation is recorded as exactly one function
\* message appended to the queue before the next inference round; the prompt
\* of the next round contains it when it is among the last 20 messages of
\* the queue, which holds for every result of a round of at most 20 operations.
RecentResultsInNextPrompt ==
    [][/\ (InferenceRound /\ log'.lastOps) => OneResultPerOperation
       /\ InferenceRound =>
              \A i \in 1..Len(log.lastResults) :
                  /\ (Len(log.lastResults) - i < PromptWindow)
                        <=> (log.lastResults[i].id \in Ids(prompt'))
                  /\ Len(log.lastResults) <= PromptWindow
                        => log.lastResults[i].id \in Ids(prompt')]_vars

ResultInTruncatedPrompt ==
    /\ log.inferences >= 3
    /\ Len(fifo_queue) > PromptWindow + 1
    /\ Len(prompt) = PromptWindow
    /\ prompt[PromptWindow].role = "function"
    /\ prompt[PromptWindow] = fifo_queue[Len(fifo_queue) - Len(log.lastResults)]

\* C19: every message that is or ever was in the working queue has a copy
\* in the recall store.
RecallHoldsEveryQueueMessage ==
    (Ids(fifo_queue) \cup evicted) \subseteq conversation_collection

\* C20: process_message always returns a response text to its caller and
\* never propagates an exception.
ProcessMessageNeverRaises ==
    /\ status # "raised"
    /\ (pc = "idle" /\ turn > 0) => response # NoResponse

\* ------------------------------------------------ sessions of two users
\* C21: when the sessions of two users interleave core-memory saves, no save
\* by one user removes or alters the persisted record of the other user.
NoCrossUserInterference ==
    [][/\ (peer_store'.saves # peer_store.saves)
             => core_memory_file'[user_id] = core_memory_file[user_id]
       /\ (opsDone' # opsDone)
             => core_memory_file'[peer_id] = core_memory_file[peer_id]]_vars

\* ------------------------------------------------ order of the queue
\* C22: the queue never reorders: in every reachable state its messages are,
\* in order, the most recently appended messages of the session, and a step
\* only drops messages from the front and appends new ones at the tail.
QueueNeverReorders ==
    /\ [](\A i \in 1..Len(fifo_queue) :
              fifo_queue[i].id = nextId - Len(fifo_queue) + i - 1)
    /\ [][\E k \in 0..Len(fifo_queue) :
              /\ Len(fifo_queue') >= Len(fifo_queue) - k
              /\ SubSeq(fifo_queue', 1, Len(fifo_queue) - k)
                     = SubSeq(fifo_queue, k + 1, Len(fifo_queue))]_vars

TrimmedQueueInOrder ==
    /\ pc = "idle"
    /\ evicted # {}
    /\ Len(fifo_queue) >= 5
    /\ fifo_queue[1].id > 1

\* C23: every operation requested in an inference result is executed, in
\* the order requested, before the loop decides to infer again or terminate.
AllRequestedExecuted ==
    log.lastOps =>
        [i \in 1..Len(log.lastResults) |-> log.lastResults[i].function] = log.lastRequested

\* C28: _flush_queue on fewer than 10 messages changes neither the queue nor
\* queue_summary; on n >= 10 messages it evicts the oldest n - floor(n/2) and
\* leaves the newest floor(n/2) in their order.
FlushKeepsNewestHalf ==
    [][(pc = "ret" /\ MustFlush(current_tokens)) =>
          LET n == Len(fifo_queue)
          IN  IF n < MinFlushLen
                  THEN fifo_queue' = fifo_queue /\ queue_summary' = queue_summary
                  ELSE /\ Len(fifo_queue') = n \div 2
                       /\ fifo_queue' = SubSeq(fifo_queue, n - (n \div 2) + 1, n)
                       /\ evicted' \ evicted
                              = Ids(SubSeq(fifo_queue, 1, n - (n \div 2)))]_vars

FlushedOddQueue ==
    /\ log.flush = "evicting"
    /\ log.preLen >= MinFlushLen
    /\ log.preLen % 2 = 1
    /\ Len(fifo_queue) = log.preLen \div 2

\* C29: at every prompt assembly the prompt holds exactly the most recent
\* min(20, queue length) queue messages in order, and every older message of
\* the session is represented in queue_summary.
OlderMessagesAreSummarized ==
    [][InferenceRound =>
          /\ prompt' = SubSeq(fifo_queue, Len(fifo_queue) + 1
                                  - (IF Len(fifo_queue) < PromptWindow
                                        THEN Len(fifo_queue) ELSE PromptWindow),
                              Len(fifo_queue))
          /\ \A id \in 1..(nextId - 1) :
                 id \in Ids(prompt') \/ id \in summaryCovers]_vars

\* ------------------------------------------------ arguments and pages
\* C24: an operation request with a required argument missing produces a
\* tool-result error, changes no store, and raises nothing.
MalformedIsRejectedLocally ==
    [][(opsDone' = opsDone + 1 /\ "missing" \in DOMAIN last_call') =>
          /\ call_result'.status = "error"
          /\ working_context' = working_context
          /\ core_memory_file' = core_memory_file
          /\ archival_collection' = archival_collection]_vars

\* The results page p of a ranking holds with page size n.
PageOf(ranking, p, n) ==
    SubSeq(ranking, (p - 1) * n + 1,
           IF p * n < Len(ranking) THEN p * n ELSE Len(ranking))

\* C25: page p of a search returns the results ranked after those of pages
\* 1..p-1, at most page_size of them.
SearchReturnsRequestedPage ==
    last_call.name \in {"archival", "conversations"} =>
        /\ Len(call_result.results) <= last_call.page_size
        /\ call_result.results
               = PageOf(last_call.ranking, last_call.page, last_call.page_size)

\* ------------------------------------------------ the planner
\* C26: when a graph run in which the plan node produced a travel_plan has
\* ended, the application has inserted a record of the trip into the
\* archival store.
CompletedTripIsArchived ==
    (node = "end" /\ inputs.travel_plan) =>
        \E i \in 1..Len(archival_collection) : archival_collection[i] = TripDoc

\* C30: every user message added to the planner state is passed to
\* process_message exactly once: never twice, and once when its run has ended.
EveryMessageDeliveredOnce ==
    \A i \in 1..Len(delivered) :
        /\ delivered[i] <= 1
        /\ node \in {"end", "input", "exit"} => delivered[i] = 1

\* ------------------------------------------------ frame of core memory
\* C27: core memory changes only by core_memory_append and
\* core_memory_replace: every other step (a user message, the pressure
\* warning, inference, the searches, archival_memory_insert, send_message,
\* an unknown operation, flush) leaves the working context and the user's
\* record in the store and in the file as they were.
CoreMemoryFrame ==
    [][\/ /\ opsDone' # opsDone
          /\ last_call'.name \in {"core_memory_append", "core_memory_replace"}
       \/ /\ working_context' = working_context
          /\ core_memory_store'[user_id] = core_memory_store[user_id]
          /\ core_memory_file'[user_id] = core_memory_file[user_id]]_vars

\* An archival insert was executed after a turn that flushed the queue, and
\* core memory is still the record made at creation.
InsertAndFlushLeftCoreMemory ==
    /\ last_call.name = "archival_memory_insert"
    /\ archival_collection # <<>>
    /\ evicted # {}
    /\ working_context = LoadOrCreateCoreMemory(EmptyFile).wc
    /\ core_memory_file[user_id] = LoadOrCreateCoreMemory(EmptyFile).file[user_id]

====
